---- MODULE Spec2Model ----
(***************************************************************************)
(* Model of the NFL historical-scores pipeline:                            *)
(*   scripts/scrape_nfl_scores.py  fetch_page, parse_time,                 *)
(*                                 detect_primetime, scrape_season, main   *)
(*   scripts/add_spreads.py        compute_spread_result,                  *)
(*                                 compute_ou_result, merge_into_excel     *)
(*   scripts/generate_data.py      main (deduplicate and sort)             *)
(*                                                                         *)
(* Text is modelled as a sequence of one-character strings, so that        *)
(* strip(), upper(), startswith(), isalpha(), int() and the regular        *)
(* expressions of the source are computed, not assumed.                    *)
(***************************************************************************)
EXTENDS Integers, Sequences, FiniteSets, TLC

VARIABLES
    \* scrape_nfl_scores.py main / scrape_season / fetch_page
    pc,              \* position of the scraper's single thread of control
    end_year,        \* args.end_year (args.start_year is DEFAULT_START_YEAR)
    year,            \* loop variable of main
    attempt,         \* loop variable of fetch_page (0-based)
    tries,           \* responses seen by the current fetch_page call
    waits,           \* time.sleep durations of the current fetch_page call
    html,            \* value returned by the current fetch_page call
    all_games,       \* main: accumulated game records
    failed_seasons,  \* main: seasons with no games
    visited,         \* seasons for which scrape_season has been called, in order
    delays,          \* main's sleeps between seasons, in order: the season
                     \* each came after and how long it was
    workbook,        \* rows write_excel has saved, NotWritten before that
    \* scrape_season on one row
    tr,              \* a row (<tr>) of the table body
    row_games,       \* scrape_season's list of games for that row
    \* detect_primetime on its own
    arg_day,         \* argument day
    arg_time_str,    \* argument time_str
    arg_season,      \* argument season
    primetime,       \* the value returned
    \* add_spreads.py compute_spread_result on its own
    hs,              \* argument home_score
    as_,             \* argument away_score
    line,            \* argument spread
    spread_result,   \* the value returned
    \* add_spreads.py main / merge_into_excel
    ws,              \* the rows of the scores worksheet, below the header
    lookup,          \* the betting lookup of the latest run
    runs,            \* number of runs of add_spreads.py so far
    repeats,         \* number of runs in a row with this same lookup
    ws_once,         \* the rows as the first of those runs left them
    ws_loaded,       \* the rows as the latest run loaded them
    matched,         \* merge_into_excel's count of rows found in the lookup
    total,           \* merge_into_excel's count of rows with date and home team
    \* generate_data.py main
    read_games,      \* all_games: the games read_excel returned, file after file
    unique_games     \* the games written to data.js, in order

scrapeVars == <<end_year, year, attempt, tries, waits, html,
                all_games, failed_seasons, visited, delays, workbook>>
extractVars == <<tr, row_games>>
primetimeVars == <<arg_day, arg_time_str, arg_season, primetime>>
spreadVars == <<hs, as_, line, spread_result>>
mergeVars == <<ws, lookup, runs, repeats, ws_once, ws_loaded, matched, total>>
generateVars == <<read_games, unique_games>>

vars == <<pc, scrapeVars, extractVars, primetimeVars, spreadVars, mergeVars,
          generateVars>>

----------------------------------------------------------------------------
(* Python values *)

\* None where a text is expected: a value no text equals (texts are tuples of
\* one-character strings)
None == <<"None">>

\* A number that may be None: NoneNum, or Num(n) with value Val(Num(n)) = n
NoneNum == <<>>
Num(n) == <<n>>
Val(v) == v[1]

Digits == {"0", "1", "2", "3", "4", "5", "6", "7", "8", "9"}

Upper == {"A", "B", "C", "D", "E", "F", "G", "H", "I", "J", "K", "L", "M",
          "N", "O", "P", "Q", "R", "S", "T", "U", "V", "W", "X", "Y", "Z"}

Lower == {"a", "b", "c", "d", "e", "f", "g", "h", "i", "j", "k", "l", "m",
          "n", "o", "p", "q", "r", "s", "t", "u", "v", "w", "x", "y", "z"}

Whitespace == {" "}

\* str.isalpha() of one character
isalpha(c) == c \in Upper \cup Lower

\* str.isdigit() of one character, as \d of the regular expressions
isdigit(c) == c \in Digits

DigitValue(c) ==
    CASE c = "0" -> 0 [] c = "1" -> 1 [] c = "2" -> 2 [] c = "3" -> 3
      [] c = "4" -> 4 [] c = "5" -> 5 [] c = "6" -> 6 [] c = "7" -> 7
      [] c = "8" -> 8 [] c = "9" -> 9

\* str.upper() of one character (the letters the modelled texts use in lower case)
upperChar(c) ==
    CASE c = "a" -> "A" [] c = "p" -> "P" [] c = "m" -> "M"
      [] OTHER -> c

upper(s) == [i \in 1..Len(s) |-> upperChar(s[i])]

RECURSIVE lstrip(_)
lstrip(s) == IF s # <<>> /\ Head(s) \in Whitespace THEN lstrip(Tail(s)) ELSE s

RECURSIVE rstrip(_)
rstrip(s) ==
    IF s # <<>> /\ s[Len(s)] \in Whitespace
    THEN rstrip(SubSeq(s, 1, Len(s) - 1))
    ELSE s

\* str.strip()
strip(s) == rstrip(lstrip(s))

\* str.startswith(prefix)
startswith(s, prefix) ==
    Len(s) >= Len(prefix) /\ SubSeq(s, 1, Len(prefix)) = prefix

\* value of a run of decimal digits
RECURSIVE DecimalValue(_)
DecimalValue(s) ==
    IF s = <<>> THEN 0
    ELSE 10 * DecimalValue(SubSeq(s, 1, Len(s) - 1)) + DigitValue(s[Len(s)])

\* whether int(text) succeeds: optional surrounding whitespace, an optional
\* sign, then one or more digits; anything else raises ValueError
IntParses(s) ==
    LET t == strip(s)
        body == IF t # <<>> /\ Head(t) \in {"-", "+"} THEN Tail(t) ELSE t
    IN  body # <<>> /\ \A i \in 1..Len(body) : isdigit(body[i])

\* int(text) where it succeeds
IntValue(s) ==
    LET t == strip(s)
        neg == t # <<>> /\ Head(t) = "-"
        body == IF t # <<>> /\ Head(t) \in {"-", "+"} THEN Tail(t) ELSE t
    IN  IF neg THEN 0 - DecimalValue(body) ELSE DecimalValue(body)

\* abs()
abs(n) == IF n < 0 THEN 0 - n ELSE n

----------------------------------------------------------------------------
(* scrape_nfl_scores.py: constants *)

DEFAULT_START_YEAR == 1966
MAX_RETRIES == 3
\* REQUEST_DELAY = 3.5 seconds; durations are counted in tenths of a second
REQUEST_DELAY == 35
Seconds(n) == 10 * n

----------------------------------------------------------------------------
(* scrape_nfl_scores.py: parse_time, detect_primetime *)

Mon == <<"M", "o", "n">>
Thu == <<"T", "h", "u">>
Sun == <<"S", "u", "n">>
Sat == <<"S", "a", "t">>
AM == <<"A", "M">>
PM == <<"P", "M">>

\* number of characters the group (\d{1,2}) takes so that ':' follows it;
\* 0 when the pattern cannot match at the start of t
HourDigits(t) ==
    IF Len(t) >= 3 /\ isdigit(t[1]) /\ isdigit(t[2]) /\ t[3] = ":" THEN 2
    ELSE IF Len(t) >= 2 /\ isdigit(t[1]) /\ t[2] = ":" THEN 1
    ELSE 0

\* text left after (\d{1,2}):(\d{2})\s*
AfterMinutes(t) == lstrip(SubSeq(t, HourDigits(t) + 4, Len(t)))

\* re.match(r'(\d{1,2}):(\d{2})\s*(AM|PM)', t) succeeds
TimeMatches(t) ==
    /\ HourDigits(t) > 0
    /\ Len(t) >= HourDigits(t) + 3
    /\ isdigit(t[HourDigits(t) + 2])
    /\ isdigit(t[HourDigits(t) + 3])
    /\ \/ startswith(AfterMinutes(t), AM)
       \/ startswith(AfterMinutes(t), PM)


parse_time(time_str) ==
    IF time_str = <<>> THEN [hour |-> NoneNum, minute |-> NoneNum]
    ELSE LET t == upper(strip(time_str)) IN
         IF ~TimeMatches(t) THEN [hour |-> NoneNum, minute |-> NoneNum]
         ELSE LET n == HourDigits(t)
                  hour == DecimalValue(SubSeq(t, 1, n))
                  minute == DecimalValue(SubSeq(t, n + 2, n + 3))
                  ampm == SubSeq(AfterMinutes(t), 1, 2)
              IN  [hour |-> IF ampm = PM /\ hour # 12 THEN Num(hour + 12)
                            ELSE IF ampm = AM /\ hour = 12 THEN Num(0)
                            ELSE Num(hour),
                   minute |-> Num(minute)]

\* Monday and Thursday games labelled only for a late kickoff
detect_primetime_late(day, time_str, season) ==
    IF day = <<>> \/ time_str = <<>> THEN ""
    ELSE LET d == strip(day)
             hour == parse_time(time_str).hour
             late == hour # NoneNum /\ Val(hour) >= 19
         IN  IF d = Mon /\ season >= 1970 /\ late THEN "MNF"
             ELSE IF d = Thu /\ season >= 2006 /\ late THEN "TNF"
             ELSE IF d = Sun /\ season >= 1987 /\ late THEN "SNF"
             ELSE IF d = Sat /\ late THEN "Saturday Primetime"
             ELSE ""

\* the rules applied also when time_str is empty
detect_primetime_no_time_guard(day, time_str, season) ==
    IF day = <<>> THEN ""
    ELSE LET d == strip(day)
             hour == parse_time(time_str).hour
             late == hour # NoneNum /\ Val(hour) >= 19
         IN  IF d = Mon /\ season >= 1970 THEN "MNF"
             ELSE IF d = Thu /\ season >= 2006 THEN "TNF"
             ELSE IF d = Sun /\ season >= 1987 /\ late THEN "SNF"
             ELSE IF d = Sat /\ late THEN "Saturday Primetime"
             ELSE ""

detect_primetime(day, time_str, season) ==
    IF day = <<>> \/ time_str = <<>> THEN ""
    ELSE LET d == strip(day)
             hour == parse_time(time_str).hour
         IN  IF d = Mon /\ season >= 1970
             THEN IF hour # NoneNum /\ Val(hour) >= 19 THEN "MNF" ELSE "MNF"
             ELSE IF d = Thu
             THEN IF season >= 2006 /\ hour # NoneNum /\ Val(hour) >= 19 THEN "TNF"
                  ELSE IF season >= 2006 THEN "TNF"
                  ELSE ""
             ELSE IF d = Sun
             THEN IF hour # NoneNum /\ Val(hour) >= 19 /\ season >= 1987 THEN "SNF"
                  ELSE ""
             ELSE IF d = Sat
             THEN IF hour # NoneNum /\ Val(hour) >= 19 THEN "Saturday Primetime"
                  ELSE ""
             ELSE ""

----------------------------------------------------------------------------
(* scrape_nfl_scores.py: scrape_season, one table row *)

\* A row of the table body: th_col says whether it holds <th scope="col">;
\* every other field is the cell with that data-stat, None when
\* row.find(...) finds no such cell. A cell is its raw text; the game_date
\* cell is [csk, text], NoDateCell when there is none.
Tie == <<"T", "i", "e">>
At == <<"@">>
Week == <<"W", "e", "e", "k">>
NoDateCell == [csk |-> None, text |-> None]

\* el.get_text(strip=True) if el else ""
CellText(el) == IF el = None THEN <<>> ELSE strip(el)

\* re.match(r'\d{4}-\d{2}-\d{2}', csk) succeeds
IsoDateMatches(csk) ==
    /\ Len(csk) >= 10
    /\ \A i \in {1, 2, 3, 4, 6, 7, 9, 10} : isdigit(csk[i])
    /\ csk[5] = "-"
    /\ csk[8] = "-"

\* lines 176-184
RowDate(date_el) ==
    IF date_el = NoDateCell THEN <<>>
    ELSE IF /\ date_el.csk # <<>>
            /\ ~startswith(date_el.csk, <<"z", "z">>)
            /\ IsoDateMatches(date_el.csk)
         THEN date_el.csk
         ELSE strip(date_el.text)

\* lines 186-193: int(el.get_text(strip=True)) if el else 0, ValueError -> 0
RowPoints(el) ==
    IF el = None THEN 0
    ELSE IF IntParses(CellText(el)) THEN IntValue(CellText(el))
    ELSE 0

\* lines 153-154, 166-167, 195-196: the row is skipped
RowSkipped(row) ==
    \/ row.th_col
    \/ row.winner = None
    \/ row.loser = None
    \/ CellText(row.winner) = <<>>
    \/ startswith(CellText(row.winner), Week)
    \/ ~\E i \in 1..Len(CellText(row.winner)) : isalpha(CellText(row.winner)[i])

\* the teams exchanged for an away win, the scores left as they were
HomeAwayTeamsOnly(location, winner, loser, pts_win, pts_lose) ==
    IF location = At
    THEN [home_team |-> loser, away_team |-> winner,
          home_score |-> pts_win, away_score |-> pts_lose]
    ELSE [home_team |-> winner, away_team |-> loser,
          home_score |-> pts_win, away_score |-> pts_lose]

\* lines 198-207: (home_team, away_team, home_score, away_score)
HomeAway(location, winner, loser, pts_win, pts_lose) ==
    IF location = At
    THEN [home_team |-> loser, away_team |-> winner,
          home_score |-> pts_lose, away_score |-> pts_win]
    ELSE [home_team |-> winner, away_team |-> loser,
          home_score |-> pts_win, away_score |-> pts_lose]

\* lines 209-212
GameWinner(winner, pts_win, pts_lose) ==
    IF pts_win = pts_lose THEN Tie ELSE winner

\* the difference without abs()
ScoreDiffSigned(pts_win, pts_lose) == pts_win - pts_lose

\* line 214
ScoreDiff(pts_win, pts_lose) == abs(pts_win - pts_lose)

\* lines 169-230: the record appended for a row that is not skipped
RowGame(row, yr) ==
    LET week == CellText(row.week_num)
        day == CellText(row.game_day_of_week)
        game_time == CellText(row.gametime)
        winner == CellText(row.winner)
        loser == CellText(row.loser)
        location == CellText(row.game_location)
        pts_win == RowPoints(row.pts_win)
        pts_lose == RowPoints(row.pts_lose)
        ha == HomeAway(location, winner, loser, pts_win, pts_lose)
    IN  [Season |-> yr,
         Week |-> week,
         Day |-> day,
         Date |-> RowDate(row.game_date),
         Time |-> game_time,
         HomeTeam |-> ha.home_team,
         AwayTeam |-> ha.away_team,
         HomeScore |-> ha.home_score,
         AwayScore |-> ha.away_score,
         ScoreDifference |-> ScoreDiff(pts_win, pts_lose),
         Winner |-> GameWinner(winner, pts_win, pts_lose),
         PrimetimeSlot |-> detect_primetime(day, game_time, yr)]

\* lines 151-232: the games of the rows of a table body, in row order
RECURSIVE RowsGames(_, _)
RowsGames(rows, yr) ==
    IF rows = <<>> THEN <<>>
    ELSE (IF RowSkipped(Head(rows)) THEN <<>> ELSE <<RowGame(Head(rows), yr)>>)
         \o RowsGames(Tail(rows), yr)

\* What fetch_page handles as html: None, the empty text, or a document
\* [has_table, has_tbody, rows] (what BeautifulSoup finds in it).
NoneHtml == [kind |-> "None", has_table |-> FALSE, has_tbody |-> FALSE, rows |-> <<>>]
EmptyHtml == [kind |-> "empty", has_table |-> FALSE, has_tbody |-> FALSE, rows |-> <<>>]
Document(has_table, has_tbody, rows) ==
    [kind |-> "document", has_table |-> has_table, has_tbody |-> has_tbody,
     rows |-> rows]

\* Python truth value of html
Truthy(h) == h.kind = "document"

\* lines 133-232: scrape_season after fetch_page has returned html
PageGames(page, yr) ==
    IF ~Truthy(page) THEN <<>>
    ELSE IF ~page.has_table THEN <<>>
    ELSE IF ~page.has_tbody THEN <<>>
    ELSE RowsGames(page.rows, yr)

----------------------------------------------------------------------------
(* scrape_nfl_scores.py: fetch_page *)

\* What one subprocess.run of curl comes to: it completes with the output
\* split into (html, status_code), or it raises.
Completed(status_code, body) ==
    [kind |-> "completed", status_code |-> status_code, html |-> body]
Raised(exc) ==
    [kind |-> exc, status_code |-> "", html |-> EmptyHtml]

\* line 63: the attempt returns html
ReturnsHtml(resp) ==
    resp.kind = "completed" /\ resp.status_code = "200" /\ Truthy(resp.html)

\* the backoff computed from the 0-based loop variable
BackoffWaitZeroBased(att) == att * Seconds(15)

\* line 66
BackoffWait(att) == (att + 1) * Seconds(15)

\* lines 65-74: the time.sleep of an attempt that does not return
SleepAfter(resp, att) ==
    IF resp.kind = "completed" /\ resp.status_code = "429"
    THEN BackoffWait(att)
    ELSE Seconds(5)

\* line 41: range(retries) has another value after att
HasNextAttempt(att) == att + 1 < MAX_RETRIES

\* the attempt counter kept from the previous call
FirstAttemptKept(att) == att

\* line 41: the first value of range(retries)
FirstAttempt(att) == 0

----------------------------------------------------------------------------
(* add_spreads.py: compute_spread_result, compute_ou_result *)

\* A betting line (spread, over/under) is written as its number of half
\* points, so -7 is the line -3.5 and 6 the line +3: the lines of the source
\* are floats that are multiples of 0.5, which are added to and compared
\* with integer scores exactly. Scores are whole points.
HalfPoints(score) == 2 * score

\* a push counted as covered
compute_spread_result_no_push(home_score, away_score, spread) ==
    IF spread = NoneNum \/ home_score = NoneNum \/ away_score = NoneNum THEN ""
    ELSE LET adjusted == HalfPoints(Val(home_score)) + Val(spread) IN
         IF adjusted >= HalfPoints(Val(away_score)) THEN "Covered"
         ELSE "Lost"

compute_spread_result(home_score, away_score, spread) ==
    IF spread = NoneNum \/ home_score = NoneNum \/ away_score = NoneNum THEN ""
    ELSE LET adjusted == HalfPoints(Val(home_score)) + Val(spread) IN
         IF adjusted > HalfPoints(Val(away_score)) THEN "Covered"
         ELSE IF adjusted < HalfPoints(Val(away_score)) THEN "Lost"
         ELSE "Push"

compute_ou_result(home_score, away_score, ou) ==
    IF ou = NoneNum \/ home_score = NoneNum \/ away_score = NoneNum THEN ""
    ELSE LET total_points == HalfPoints(Val(home_score) + Val(away_score)) IN
         IF total_points > Val(ou) THEN "Over"
         ELSE IF total_points < Val(ou) THEN "Under"
         ELSE "Push"

----------------------------------------------------------------------------
(* add_spreads.py: merge_into_excel *)

\* None in a Spread Result or O/U Result cell
NoneResult == "None"

\* text[:10]
First10(text) == SubSeq(text, 1, IF Len(text) < 10 THEN Len(text) ELSE 10)

\* lines 174-177: the key a row is looked up by
RowKey(r) == <<First10(strip(r.Date)), strip(r.HomeTeam)>>

\* lines 170-171: the row is passed over
RowPassedOver(r) == r.Date = None \/ r.HomeTeam = None

\* lines 177-179: lookup.get(key) gives a betting line
Hit(r, lk) == RowKey(r) \in DOMAIN lk

\* the results computed from the lines the row held before the merge
MergeRowFromOldLines(r, lk) ==
    IF RowPassedOver(r) THEN r
    ELSE IF Hit(r, lk)
    THEN [r EXCEPT
            !.Spread = lk[RowKey(r)].spread,
            !.OverUnder = lk[RowKey(r)].ou,
            !.SpreadResult =
                compute_spread_result(r.HomeScore, r.AwayScore, r.Spread),
            !.OUResult = compute_ou_result(r.HomeScore, r.AwayScore, r.OverUnder)]
    ELSE [r EXCEPT !.Spread = NoneNum, !.OverUnder = NoneNum,
                   !.SpreadResult = NoneResult, !.OUResult = NoneResult]

\* a miss that leaves the row as it was
MergeRowStaleOnMiss(r, lk) ==
    IF RowPassedOver(r) THEN r
    ELSE IF Hit(r, lk)
    THEN LET spread == lk[RowKey(r)].spread
             ou == lk[RowKey(r)].ou
         IN  [r EXCEPT
                !.Spread = spread,
                !.OverUnder = ou,
                !.SpreadResult =
                    compute_spread_result(r.HomeScore, r.AwayScore, spread),
                !.OUResult = compute_ou_result(r.HomeScore, r.AwayScore, ou)]
    ELSE r

\* lines 165-218: what the loop body does to one row
MergeRow(r, lk) ==
    IF RowPassedOver(r) THEN r
    ELSE IF Hit(r, lk)
    THEN LET spread == lk[RowKey(r)].spread
             ou == lk[RowKey(r)].ou
         IN  [r EXCEPT
                !.Spread = spread,
                !.OverUnder = ou,
                !.SpreadResult =
                    compute_spread_result(r.HomeScore, r.AwayScore, spread),
                !.OUResult = compute_ou_result(r.HomeScore, r.AwayScore, ou)]
    ELSE [r EXCEPT !.Spread = NoneNum, !.OverUnder = NoneNum,
                   !.SpreadResult = NoneResult, !.OUResult = NoneResult]

\* the loop writing the trimmed home team back to the row
MergeRowsNormalised(rows, lk) ==
    [i \in 1..Len(rows) |->
        [MergeRow(rows[i], lk) EXCEPT !.HomeTeam = strip(@)]]

\* lines 164-218: the loop over the rows
MergeRows(rows, lk) == [i \in 1..Len(rows) |-> MergeRow(rows[i], lk)]

\* lines 173, 180: the counts returned
Total(rows) == Cardinality({i \in 1..Len(rows) : ~RowPassedOver(rows[i])})
Matched(rows, lk) ==
    Cardinality({i \in 1..Len(rows) : ~RowPassedOver(rows[i]) /\ Hit(rows[i], lk)})

----------------------------------------------------------------------------
(* generate_data.py: main, deduplicate and sort *)

\* ord() of the characters of the dates
Ord(c) ==
    CASE c = " " -> 32 [] c = "-" -> 45
      [] c \in Digits -> 48 + DigitValue(c)

\* Python's a < b on two texts
RECURSIVE TextLess(_, _)
TextLess(a, b) ==
    IF b = <<>> THEN FALSE
    ELSE IF a = <<>> THEN TRUE
    ELSE IF Ord(Head(a)) # Ord(Head(b)) THEN Ord(Head(a)) < Ord(Head(b))
    ELSE TextLess(Tail(a), Tail(b))

\* line 157
DedupKey(g) == <<g.s, g.dt, g.h, g.a>>

\* line 164: the sort key (g["s"], g["dt"]) of a is less than that of b
SortKeyLess(a, b) == a.s < b.s \/ (a.s = b.s /\ TextLess(a.dt, b.dt))

\* lines 154-160: the loop over all_games, from the state (seen, unique_games)
RECURSIVE DedupLoop(_, _, _)
DedupLoop(games, seen, unique) ==
    IF games = <<>> THEN unique
    ELSE IF DedupKey(Head(games)) \notin seen
    THEN DedupLoop(Tail(games), seen \cup {DedupKey(Head(games))},
                   Append(unique, Head(games)))
    ELSE DedupLoop(Tail(games), seen, unique)

\* a later game with a key already seen takes the place of the earlier one
RECURSIVE DedupLastWins(_)
DedupLastWins(games) ==
    IF games = <<>> THEN <<>>
    ELSE LET rest == DedupLastWins(SubSeq(games, 1, Len(games) - 1))
             g == games[Len(games)]
         IN  IF \E i \in 1..Len(rest) : DedupKey(rest[i]) = DedupKey(g)
             THEN [i \in 1..Len(rest) |->
                     IF DedupKey(rest[i]) = DedupKey(g) THEN g ELSE rest[i]]
             ELSE Append(rest, g)

\* lines 154-160
Dedup(games) == DedupLoop(games, {}, <<>>)

\* list.sort is stable: g goes after the games whose key is not greater
RECURSIVE InsertSorted(_, _)
InsertSorted(sorted, g) ==
    IF sorted = <<>> THEN <<g>>
    ELSE IF SortKeyLess(g, Head(sorted)) THEN <<g>> \o sorted
    ELSE <<Head(sorted)>> \o InsertSorted(Tail(sorted), g)

\* line 164: unique_games.sort(key=lambda g: (g["s"], g["dt"]))
RECURSIVE SortGames(_)
SortGames(games) ==
    IF games = <<>> THEN <<>>
    ELSE InsertSorted(SortGames(SubSeq(games, 1, Len(games) - 1)),
                      games[Len(games)])

----------------------------------------------------------------------------
(* Inputs of the scraper *)

\* number of seasons a run covers, at most
NumSeasons == 2
\* number of rows of a table body, at most
MaxRows == 2

KC == <<"K", "C">>
GB == <<"G", "B">>

Row(th_col, week_num, day, game_date, gametime, winner, location, loser, pts_win, pts_lose) ==
    [th_col |-> th_col, week_num |-> week_num, game_day_of_week |-> day,
     game_date |-> game_date, gametime |-> gametime, winner |-> winner,
     game_location |-> location, loser |-> loser,
     pts_win |-> pts_win, pts_lose |-> pts_lose]

Sep11 == <<"1", "9", "6", "6", "-", "0", "9", "-", "1", "1">>
OnePM == <<"1", ":", "0", "0", "P", "M">>

\* the repeated header row inside the table body
HeaderRow ==
    Row(TRUE, None, None, NoDateCell, None, None, None, None, None, None)
\* the winner played at home
HomeWinRow ==
    Row(FALSE, <<"1">>, Sun, [csk |-> Sep11, text |-> <<>>], OnePM,
        KC, <<>>, GB, <<"2", "4">>, <<"1", "7">>)

\* the rows the pages of a run are made of: one that is skipped, one that
\* gives a game (the extraction of every kind of row is SpecExtract's)
ScrapeRows == {HeaderRow, HomeWinRow}

RowSeqs == UNION {[1..n -> ScrapeRows] : n \in 0..MaxRows}

Documents ==
    {Document(FALSE, FALSE, <<>>), Document(TRUE, FALSE, <<>>)}
    \cup {Document(TRUE, TRUE, rows) : rows \in RowSeqs}

Responses ==
    {Completed("200", d) : d \in Documents}
    \cup {Completed("200", EmptyHtml), Completed("429", EmptyHtml),
          Completed("503", EmptyHtml), Raised("Exception"),
          Raised("TimeoutExpired")}

NotWritten == <<"not written">>

\* the state of the scraper's run before main's loop
ScrapeStart ==
    /\ year = DEFAULT_START_YEAR
    /\ attempt = 0
    /\ tries = <<>>
    /\ waits = <<>>
    /\ html = NoneHtml
    /\ all_games = <<>>
    /\ failed_seasons = <<>>
    /\ visited = <<>>
    /\ delays = <<>>
    /\ workbook = NotWritten

\* no row is being extracted on its own
ExtractIdle == tr = HeaderRow /\ row_games = <<>>

\* detect_primetime is not being called on its own
PrimetimeIdle ==
    /\ arg_day = <<>>
    /\ arg_time_str = <<>>
    /\ arg_season = DEFAULT_START_YEAR
    /\ primetime = ""

\* compute_spread_result is not being called on its own
SpreadIdle ==
    /\ hs = NoneNum
    /\ as_ = NoneNum
    /\ line = NoneNum
    /\ spread_result = ""

\* add_spreads.py has not run
MergeIdle ==
    /\ ws = <<>>
    /\ lookup = <<>>
    /\ runs = 0
    /\ repeats = 0
    /\ ws_once = <<>>
    /\ ws_loaded = <<>>
    /\ matched = 0
    /\ total = 0

\* generate_data.py has not run
GenerateIdle == read_games = <<>> /\ unique_games = <<>>

\* the other programs and calls are not running
OthersIdle ==
    ExtractIdle /\ PrimetimeIdle /\ SpreadIdle /\ MergeIdle /\ GenerateIdle
ScrapeIdle == end_year = DEFAULT_START_YEAR /\ ScrapeStart

\* what the scraper's run leaves alone
nonScrape == <<extractVars, primetimeVars, spreadVars, mergeVars, generateVars>>

----------------------------------------------------------------------------
(* scrape_nfl_scores.py: main, scrape_season and fetch_page as one thread *)

Init ==
    /\ pc = "call"
    /\ end_year \in DEFAULT_START_YEAR..(DEFAULT_START_YEAR + NumSeasons - 1)
    /\ ScrapeStart
    /\ OthersIdle

\* main line 309 calls scrape_season(year), which calls fetch_page (line
\* 132), which enters its loop (line 41)
CallScrapeSeason ==
    /\ pc = "call"
    /\ visited' = Append(visited, year)
    /\ attempt' = FirstAttempt(attempt)
    /\ tries' = <<>>
    /\ waits' = <<>>
    /\ html' = NoneHtml
    /\ pc' = "fetch"
    /\ UNCHANGED <<nonScrape, end_year, year, all_games, failed_seasons, delays, workbook>>

\* one iteration of fetch_page's loop, lines 41-75
FetchAttempt ==
    /\ pc = "fetch"
    /\ \E resp \in Responses :
        /\ tries' = Append(tries, resp)
        /\ IF ReturnsHtml(resp)
           THEN /\ html' = resp.html
                /\ pc' = "parse"
                /\ UNCHANGED <<attempt, waits>>
           ELSE /\ waits' = Append(waits, SleepAfter(resp, attempt))
                /\ IF HasNextAttempt(attempt)
                   THEN /\ attempt' = attempt + 1
                        /\ pc' = "fetch"
                        /\ html' = html
                   ELSE /\ attempt' = attempt
                        /\ html' = NoneHtml
                        /\ pc' = "parse"
    /\ UNCHANGED <<nonScrape, end_year, year, all_games, failed_seasons, visited, delays,
                   workbook>>

\* every season taken as one that found games
ContributesAlways(games) == TRUE

\* lines 311-316: what main does with the games of a season
Contributes(games) == games # <<>>

\* main sleeping after every season, the last one too
SleepsAfterEverySeason(yr, last) == TRUE

\* line 318: main sleeps before the next season
SleepsBetweenSeasons(yr, last) == yr < last

\* scrape_season lines 133-232 on the html fetch_page returned, then main
\* lines 311-318; scrape_season has returned
ParseSeason ==
    /\ pc = "parse"
    /\ LET games == PageGames(html, year) IN
        IF Contributes(games)
        THEN /\ all_games' = all_games \o games
             /\ UNCHANGED failed_seasons
        ELSE /\ failed_seasons' = Append(failed_seasons, year)
             /\ UNCHANGED all_games
    /\ pc' = IF SleepsBetweenSeasons(year, end_year) THEN "delay" ELSE "summary"
    \* what fetch_page saw and returned is gone with scrape_season's frame
    /\ tries' = <<>>
    /\ waits' = <<>>
    /\ html' = NoneHtml
    /\ UNCHANGED <<nonScrape, end_year, year, attempt, visited, delays, workbook>>

\* main lines 318-319 and the next value of range(start_year, end_year + 1)
Delay ==
    /\ pc = "delay"
    /\ delays' = Append(delays, [after |-> year, slept |-> REQUEST_DELAY])
    /\ year' = year + 1
    /\ pc' = "call"
    /\ UNCHANGED <<nonScrape, end_year, attempt, tries, waits, html, all_games,
                   failed_seasons, visited, workbook>>

\* main lines 321-341: write_excel(all_games) when there are games
Finish ==
    /\ pc = "summary"
    /\ workbook' = IF all_games # <<>> THEN all_games ELSE workbook
    /\ pc' = "done"
    /\ UNCHANGED <<nonScrape, end_year, year, attempt, tries, waits, html, all_games,
                   failed_seasons, visited, delays>>

Next == CallScrapeSeason \/ FetchAttempt \/ ParseSeason \/ Delay \/ Finish

Spec == Init /\ [][Next]_vars

----------------------------------------------------------------------------
(* scrape_season on a single row, for any content of its cells *)

WinnerCells ==
    {None, <<>>, KC, GB, <<" ", "K", "C", " ">>,
     <<"W", "e", "e", "k", " ", "1">>, <<"-", "-">>}
LoserCells == {None, <<>>, KC, GB}
LocationCells == {None, <<>>, At, <<"@", " ">>, <<"N">>}
PtsWinCells == {None, <<>>, <<"2", "4">>, <<"1", "7">>, <<"x">>}
PtsLoseCells == {None, <<"1", "7">>, <<"2", "4">>, <<"-">>}

ExtractRows ==
    {Row(h, <<"1">>, Sun, [csk |-> Sep11, text |-> <<>>], OnePM, w, at, l, pw, pl) :
        h \in BOOLEAN, w \in WinnerCells, at \in LocationCells,
        l \in LoserCells, pw \in PtsWinCells, pl \in PtsLoseCells}

InitExtract ==
    /\ pc = "row"
    /\ tr \in ExtractRows
    /\ row_games = <<>>
    /\ ScrapeIdle
    /\ PrimetimeIdle
    /\ SpreadIdle
    /\ MergeIdle
    /\ GenerateIdle

\* scrape_season lines 151-232 on a table body of this one row
ExtractRow ==
    /\ pc = "row"
    /\ row_games' = RowsGames(<<tr>>, year)
    /\ pc' = "extracted"
    /\ UNCHANGED <<scrapeVars, primetimeVars, spreadVars, mergeVars, generateVars, tr>>

NextExtract == ExtractRow

SpecExtract == InitExtract /\ [][NextExtract]_vars

----------------------------------------------------------------------------
(* Properties of the extraction of a row *)

\* the texts and points scrape_season reads from the row
WinnerText == CellText(tr.winner)
LoserText == CellText(tr.loser)
LocationText == CellText(tr.game_location)
WinnerPoints == RowPoints(tr.pts_win)
LoserPoints == RowPoints(tr.pts_lose)

\* C4: for every accepted row, if the location marker is '@' then home is
\* the loser-column team with the loser's points and away is the
\* winner-column team with the winner's points; for any other marker home
\* is the winner-column team with the winner's points and away the
\* loser-column team with the loser's points.
C4_HomeAwayResolution ==
    pc = "extracted" =>
      \A i \in 1..Len(row_games) :
        IF LocationText = <<"@">>
        THEN /\ row_games[i].HomeTeam = LoserText
             /\ row_games[i].AwayTeam = WinnerText
             /\ row_games[i].HomeScore = LoserPoints
             /\ row_games[i].AwayScore = WinnerPoints
        ELSE /\ row_games[i].HomeTeam = WinnerText
             /\ row_games[i].AwayTeam = LoserText
             /\ row_games[i].HomeScore = WinnerPoints
             /\ row_games[i].AwayScore = LoserPoints

\* KC won 24-17 at GB
C4_Witness ==
    /\ pc = "extracted"
    /\ Len(row_games) = 1
    /\ tr.game_location = <<"@", " ">>
    /\ row_games[1].HomeTeam = GB
    /\ row_games[1].AwayTeam = KC
    /\ row_games[1].HomeScore = 17
    /\ row_games[1].AwayScore = 24

----------------------------------------------------------------------------
(* detect_primetime on the day and time texts scrape_season can pass *)

Tue == <<"T", "u", "e">>

\* the game_day_of_week cell, as found in the row
DayCells == {None, <<>>, Mon, Thu, Sun, Sat, Tue, <<"M", "O", "N">>, <<" ", "S", "u", "n">>}

EightTwentyPM == <<"8", ":", "2", "0", "P", "M">>
SevenPM == <<"7", ":", "0", "0", "P", "M">>
EightPM == <<"8", ":", "0", "0", "P", "M">>

\* the gametime cell, as found in the row
TimeCells ==
    {None, <<>>, OnePM, EightTwentyPM, SevenPM, EightPM,
     <<"6", ":", "5", "9", "P", "M">>,
     <<"1", "2", ":", "0", "0", "P", "M">>,
     <<"1", "2", ":", "3", "0", "A", "M">>,
     <<"1", "1", ":", "0", "0", "A", "M">>,
     <<"1", "0", ":", "1", "5", "P", "M">>,
     <<"8", ":", "2", "0", " ", "p", "m">>,
     <<" ", "9", ":", "1", "5", "P", "M", " ">>,
     <<"T", "B", "D">>,
     <<"2", "0", ":", "2", "0">>,
     <<"8", "P", "M">>,
     <<"8", ":", "2", "P", "M">>}

\* seasons on both sides of every era threshold
Seasons == {1966, 1969, 1970, 1975, 1986, 1987, 2000, 2005, 2006, 2010, 2020, 2022}

InitPrimetime ==
    /\ pc = "classify"
    /\ arg_day \in {CellText(c) : c \in DayCells}
    /\ arg_time_str \in {CellText(c) : c \in TimeCells}
    /\ arg_season \in Seasons
    /\ primetime = ""
    /\ ScrapeIdle
    /\ ExtractIdle
    /\ SpreadIdle
    /\ MergeIdle
    /\ GenerateIdle

\* line 215: primetime = detect_primetime(day, game_time, year)
Classify ==
    /\ pc = "classify"
    /\ primetime' = detect_primetime(arg_day, arg_time_str, arg_season)
    /\ pc' = "classified"
    /\ UNCHANGED <<scrapeVars, extractVars, spreadVars, mergeVars, generateVars>>
    /\ UNCHANGED <<arg_day, arg_time_str, arg_season>>

NextPrimetime == Classify

SpecPrimetime == InitPrimetime /\ [][NextPrimetime]_vars

----------------------------------------------------------------------------
(* Properties of detect_primetime *)

\* the hour parse_time gives for the kickoff time, NoneNum when it gives none
ParsedHour == parse_time(arg_time_str).hour

\* the label of the first matching rule, for a parsed hour h
FirstRule(d, h, y) ==
    IF d = <<"M", "o", "n">> /\ y >= 1970 THEN "MNF"
    ELSE IF d = <<"T", "h", "u">> /\ y >= 2006 THEN "TNF"
    ELSE IF d = <<"S", "u", "n">> /\ y >= 1987 /\ h >= 19 THEN "SNF"
    ELSE IF d = <<"S", "a", "t">> /\ h >= 19 THEN "Saturday Primetime"
    ELSE ""

\* classify(day, time, season) == label, for the examples of the design
Example(d, t, y, label) ==
    (arg_day = d /\ arg_time_str = t /\ arg_season = y) => primetime = label

\* C6: for every day, every season and every kickoff time that parses to an
\* hour h, detect_primetime returns the label of the first matching rule:
\* Mon and season >= 1970 -> "MNF"; Thu and season >= 2006 -> "TNF"; Sun,
\* season >= 1987 and h >= 19 -> "SNF"; Sat and h >= 19 -> "Saturday
\* Primetime"; otherwise "". The result is one of these five labels.
C6_FirstMatchingRule ==
    pc = "classified" =>
      /\ primetime \in {"", "MNF", "TNF", "SNF", "Saturday Primetime"}
      /\ ParsedHour # NoneNum =>
           primetime = FirstRule(arg_day, Val(ParsedHour), arg_season)
      /\ Example(<<"M", "o", "n">>, <<"1", ":", "0", "0", "P", "M">>, 1975, "MNF")
      /\ Example(<<"T", "h", "u">>, <<"8", ":", "2", "0", "P", "M">>, 2010, "TNF")
      /\ Example(<<"T", "h", "u">>, <<"1", ":", "0", "0", "P", "M">>, 2000, "")
      /\ Example(<<"S", "u", "n">>, <<"8", ":", "2", "0", "P", "M">>, 2020, "SNF")
      /\ Example(<<"S", "u", "n">>, <<"1", ":", "0", "0", "P", "M">>, 2020, "")
      /\ Example(<<"S", "a", "t">>, <<"8", ":", "0", "0", "P", "M">>, 2022, "Saturday Primetime")

\* an early Monday kickoff in the Monday-night era
C6_Witness ==
    /\ pc = "classified"
    /\ arg_day = Mon
    /\ arg_time_str = OnePM
    /\ ParsedHour = Num(13)
    /\ arg_season = 1975
    /\ primetime = "MNF"

\* C7 as stated: for an unparsable or absent (empty) kickoff time,
\* detect_primetime still returns "MNF" for Mon in a season >= 1970 and
\* "TNF" for Thu in a season >= 2006.
C7_Original ==
    (pc = "classified" /\ ParsedHour = NoneNum) =>
      /\ (arg_day = Mon /\ arg_season >= 1970) => primetime = "MNF"
      /\ (arg_day = Thu /\ arg_season >= 2006) => primetime = "TNF"

\* C7 (amended): for a kickoff time that is not empty but cannot be parsed,
\* detect_primetime still returns "MNF" for Mon in a season >= 1970 and
\* "TNF" for Thu in a season >= 2006; for an empty kickoff time it returns
\* "" for every day and season.
C7_UnparsableTime ==
    pc = "classified" =>
      /\ (ParsedHour = NoneNum /\ arg_time_str # <<>>) =>
            /\ (arg_day = Mon /\ arg_season >= 1970) => primetime = "MNF"
            /\ (arg_day = Thu /\ arg_season >= 2006) => primetime = "TNF"
      /\ arg_time_str = <<>> => primetime = ""

\* a Monday game of 1975 with no kickoff time gets no label
C7_Witness ==
    /\ pc = "classified"
    /\ arg_day = Mon
    /\ arg_season = 1975
    /\ arg_time_str = <<>>
    /\ primetime = ""

\* a Thursday game of 2010 whose kickoff time cannot be parsed is "TNF"
C7_WitnessUnparsable ==
    /\ pc = "classified"
    /\ arg_day = Thu
    /\ arg_season = 2010
    /\ arg_time_str = <<"T", "B", "D">>
    /\ primetime = "TNF"

----------------------------------------------------------------------------
(* compute_spread_result on any scores and line *)

\* the largest line, in half points
MaxHalfPoints == 8

\* scores: None, or whole points
ScoreArgs == {NoneNum} \cup {Num(n) : n \in {0, 3, 17, 20, 23, 24}}
\* lines: None, or a number of half points of either sign
LineArgs == {NoneNum} \cup {Num(n) : n \in (0 - MaxHalfPoints)..MaxHalfPoints}

InitSpread ==
    /\ pc = "spread"
    /\ hs \in ScoreArgs
    /\ as_ \in ScoreArgs
    /\ line \in LineArgs
    /\ spread_result = ""
    /\ ScrapeIdle
    /\ ExtractIdle
    /\ PrimetimeIdle
    /\ MergeIdle
    /\ GenerateIdle

\* merge_into_excel line 193: spread_result = compute_spread_result(hs, as_, spread)
ComputeSpread ==
    /\ pc = "spread"
    /\ spread_result' = compute_spread_result(hs, as_, line)
    /\ pc' = "spread done"
    /\ UNCHANGED <<scrapeVars, extractVars, primetimeVars, mergeVars, generateVars>>
    /\ UNCHANGED <<hs, as_, line>>

NextSpread == ComputeSpread

SpecSpread == InitSpread /\ [][NextSpread]_vars

----------------------------------------------------------------------------
(* Properties of compute_spread_result *)

Known == hs # NoneNum /\ as_ # NoneNum /\ line # NoneNum

\* home_score + spread - away_score, in half points
AdjustedMargin == 2 * (Val(hs) - Val(as_)) + Val(line)

\* compute_spread_result(home, away, spread) == label, spread in half points
SpreadExample(home, away, halves, label) ==
    (hs = Num(home) /\ as_ = Num(away) /\ line = Num(halves)) =>
        spread_result = label

\* C8: for every known homeScore, awayScore and spread, half-point and
\* negative lines included, with adjusted = homeScore + spread the result is
\* "Covered" iff adjusted > awayScore, "Lost" iff adjusted < awayScore and
\* "Push" iff adjusted = awayScore, without rounding or tolerance; the
\* result is empty whenever the spread or a score is unknown.
C8_SpreadResult ==
    pc = "spread done" =>
      /\ ~Known => spread_result = ""
      /\ Known =>
           /\ spread_result = "Covered" <=> AdjustedMargin > 0
           /\ spread_result = "Lost" <=> AdjustedMargin < 0
           /\ spread_result = "Push" <=> AdjustedMargin = 0
           /\ spread_result \in {"Covered", "Lost", "Push"}
      /\ SpreadExample(24, 20, -7, "Covered")
      /\ SpreadExample(17, 24, 6, "Lost")
      /\ SpreadExample(20, 23, 6, "Push")

\* a home underdog by half a point more than the margin covers: 20 + 3.5 > 23
C8_Witness ==
    /\ pc = "spread done"
    /\ hs = Num(20)
    /\ as_ = Num(23)
    /\ line = Num(7)
    /\ spread_result = "Covered"

----------------------------------------------------------------------------
(* add_spreads.py run on a worksheet of scores, any number of times *)

\* number of rows of the worksheet, at most
MaxRecords == 2
\* number of runs of add_spreads.py, at most
MaxRuns == 2

\* KC won 23-20 at GB
AwayWinRow ==
    Row(FALSE, <<"1">>, Sun, [csk |-> Sep11, text |-> <<>>], OnePM,
        KC, At, GB, <<"2", "3">>, <<"2", "0">>)

\* write_excel lines 258-261: the row written for a game; the four betting
\* columns are not there yet
SheetRow(game) ==
    [Season |-> game.Season, Week |-> game.Week, Day |-> game.Day,
     Date |-> game.Date, Time |-> game.Time,
     HomeTeam |-> game.HomeTeam, AwayTeam |-> game.AwayTeam,
     HomeScore |-> Num(game.HomeScore), AwayScore |-> Num(game.AwayScore),
     ScoreDifference |-> game.ScoreDifference, Winner |-> game.Winner,
     PrimetimeSlot |-> game.PrimetimeSlot,
     Spread |-> NoneNum, OverUnder |-> NoneNum,
     SpreadResult |-> NoneResult, OUResult |-> NoneResult]

KCHome == SheetRow(RowGame(HomeWinRow, DEFAULT_START_YEAR))
GBHome == SheetRow(RowGame(AwayWinRow, DEFAULT_START_YEAR))

\* betting cells left by a merge with some other betting source
WithOldLines(r) ==
    [r EXCEPT !.Spread = Num(-14), !.OverUnder = Num(80),
              !.SpreadResult = "Lost", !.OUResult = "Over"]

\* the rows a worksheet is made of: as written by the scraper, or edited
\* (no date, padded or differently cased home team, a date with a time of
\* day, no home score), each with or without old betting cells
CleanRows ==
    {KCHome, GBHome,
     [KCHome EXCEPT !.Date = None],
     [KCHome EXCEPT !.HomeTeam = <<" ", "K", "C", " ">>],
     [KCHome EXCEPT !.HomeTeam = <<"k", "c">>],
     [KCHome EXCEPT !.Date = Sep11 \o <<" ", "0", "0", ":", "0", "0">>],
     [KCHome EXCEPT !.HomeScore = NoneNum]}
SheetRows == CleanRows \cup {WithOldLines(r) : r \in CleanRows}

Sheets == UNION {[1..n -> SheetRows] : n \in 0..MaxRecords}

\* the betting lookups: for some of the keys, a line with spread and total
\* both known, or with the total missing
Keys == {<<Sep11, KC>>, <<Sep11, GB>>}
Lines == {[spread |-> Num(6), ou |-> Num(86)], [spread |-> Num(-7), ou |-> NoneNum]}
Lookups == UNION {[K -> Lines] : K \in SUBSET Keys}

InitMerge ==
    /\ pc = "merge"
    /\ ws \in Sheets
    /\ lookup = <<>>
    /\ runs = 0
    /\ repeats = 0
    /\ ws_once = <<>>
    /\ ws_loaded = <<>>
    /\ matched = 0
    /\ total = 0
    /\ ScrapeIdle
    /\ ExtractIdle
    /\ PrimetimeIdle
    /\ SpreadIdle
    /\ GenerateIdle

\* one run of add_spreads.py main, lines 246-260: the lookup is built from
\* the downloaded workbook and merged into the worksheet
RunAddSpreads ==
    /\ pc = "merge"
    /\ runs < MaxRuns
    /\ \E lk \in Lookups :
        /\ lookup' = lk
        /\ ws' = MergeRows(ws, lk)
        /\ matched' = Matched(ws, lk)
        /\ total' = Total(ws)
        /\ repeats' = IF runs > 0 /\ lk = lookup THEN repeats + 1 ELSE 1
        /\ ws_once' = IF runs > 0 /\ lk = lookup THEN ws_once ELSE MergeRows(ws, lk)
    /\ ws_loaded' = ws
    /\ runs' = runs + 1
    /\ UNCHANGED <<pc, scrapeVars, extractVars, primetimeVars, spreadVars, generateVars>>

NextMerge == RunAddSpreads

SpecMerge == InitMerge /\ [][NextMerge]_vars

----------------------------------------------------------------------------
(* Properties of merge_into_excel *)

\* C9: applying the merge twice with the same lookup leaves every record,
\* betting fields and all other fields, identical to applying it once,
\* whatever betting values the records held before the first merge.
C9_MergeIdempotent == repeats >= 2 => ws = ws_once

\* a second merge with the same lookup over a row that had old betting
\* cells and is now a hit
C9_Witness ==
    /\ repeats = 2
    /\ Len(ws) = 2
    /\ DOMAIN lookup = Keys
    /\ ws[1].Spread = Num(-7)
    /\ ws[1].SpreadResult = "Covered"
    /\ ws[2].HomeTeam = <<"k", "c">>
    /\ ws[2].Spread = NoneNum

\* the record has a date and a home team
Eligible(r) == r.Date # None /\ r.HomeTeam # None

\* the four betting fields of the record are absent
Cleared(r) ==
    /\ r.Spread = NoneNum
    /\ r.OverUnder = NoneNum
    /\ r.SpreadResult = NoneResult
    /\ r.OUResult = NoneResult

\* the record's date and home team as they stand in the store
VerbatimKey(r) == <<r.Date, r.HomeTeam>>

\* the first ten characters of the date without surrounding blanks, and the
\* home team without surrounding blanks
TrimmedKey(r) ==
    <<SubSeq(strip(r.Date), 1, IF Len(strip(r.Date)) < 10 THEN Len(strip(r.Date)) ELSE 10),
      strip(r.HomeTeam)>>

\* C12 as stated: after a merge, every record with a date and a home team
\* whose (date, homeTeam), taken verbatim, is not a key of the lookup has
\* its four betting fields absent.
C12_Original ==
    runs >= 1 =>
        \A i \in 1..Len(ws) :
            (Eligible(ws[i]) /\ VerbatimKey(ws[i]) \notin DOMAIN lookup) =>
                Cleared(ws[i])

\* C12: after a merge, every record with a date and a home team whose key,
\* the first ten characters of its trimmed date and its trimmed home team,
\* is not in the lookup has spread, over/under, spread result and O/U
\* result all absent, whatever they held before; a record whose key is in
\* the lookup holds that entry's lines; apart from the trimming the match
\* is exact and case-sensitive.
C12_MissClears ==
    runs >= 1 =>
        /\ Len(ws) = Len(ws_loaded)
        /\ \A i \in 1..Len(ws) :
            Eligible(ws_loaded[i]) =>
                IF TrimmedKey(ws_loaded[i]) \in DOMAIN lookup
                THEN /\ ws[i].Spread = lookup[TrimmedKey(ws_loaded[i])].spread
                     /\ ws[i].OverUnder = lookup[TrimmedKey(ws_loaded[i])].ou
                     /\ ~Cleared(ws[i])
                ELSE Cleared(ws[i])

\* the second merge, with another betting source, cleared the fields the
\* first had filled for GB's home game, and found nothing for "kc" though
\* it holds a line for "KC"
C12_Witness ==
    /\ runs = 2
    /\ Len(ws) = 2
    /\ DOMAIN lookup = {<<Sep11, KC>>}
    /\ ws_loaded[1].HomeTeam = GB
    /\ ws_loaded[1].Spread = Num(6)
    /\ ws_loaded[1].SpreadResult = "Push"
    /\ Cleared(ws[1])
    /\ ws[2].HomeTeam = <<"k", "c">>
    /\ Cleared(ws[2])

\* the fields of a record that are not betting fields
ScoreAndIdentity(r) ==
    <<r.Season, r.Week, r.Day, r.Date, r.Time, r.HomeTeam, r.AwayTeam,
      r.HomeScore, r.AwayScore, r.ScoreDifference, r.Winner, r.PrimetimeSlot>>

C13_Step ==
    /\ Len(ws') = Len(ws)
    /\ \A i \in 1..Len(ws) : ScoreAndIdentity(ws'[i]) = ScoreAndIdentity(ws[i])

\* C13: every merge, on hit and on miss alike, leaves season, week, day,
\* date, kickoff time, home team, away team, home score, away score, score
\* difference, winner and primetime slot of every record unchanged, and the
\* number and order of the records, so any number of merges does.
C13_OnlyBettingFields == [][C13_Step]_vars

\* after two merges: the latest changed the lines of the first record, a
\* hit, and cleared those of the second, a miss, and both records are
\* otherwise as loaded
C13_Witness ==
    /\ runs = 2
    /\ Len(ws) = 2
    /\ TrimmedKey(ws_loaded[1]) \in DOMAIN lookup
    /\ ws[1].Spread # ws_loaded[1].Spread
    /\ Eligible(ws_loaded[2])
    /\ TrimmedKey(ws_loaded[2]) \notin DOMAIN lookup
    /\ ~Cleared(ws_loaded[2])
    /\ Cleared(ws[2])
    /\ ScoreAndIdentity(ws[1]) = ScoreAndIdentity(ws_loaded[1])
    /\ ScoreAndIdentity(ws[2]) = ScoreAndIdentity(ws_loaded[2])
    /\ ws[1].HomeTeam = <<" ", "K", "C", " ">>

----------------------------------------------------------------------------
(* generate_data.py run on the games read from the worksheets *)

\* number of games read, at most
MaxGames == 3

Oct02 == <<"1", "9", "6", "6", "-", "1", "0", "-", "0", "2">>

\* read_excel lines 80-91: a game dict (the fields the key, the order and
\* the choice between duplicates can show in)
GameDicts ==
    {[s |-> y, dt |-> d, h |-> t[1], a |-> t[2], hs |-> p] :
        y \in {DEFAULT_START_YEAR, DEFAULT_START_YEAR + 1},
        d \in {Sep11, Oct02},
        t \in {<<KC, GB>>, <<GB, KC>>},
        p \in {17, 24}}

InitGenerate ==
    /\ pc = "generate"
    /\ read_games \in UNION {[1..n -> GameDicts] : n \in 0..MaxGames}
    /\ unique_games = <<>>
    /\ ScrapeIdle
    /\ ExtractIdle
    /\ PrimetimeIdle
    /\ SpreadIdle
    /\ MergeIdle

\* main lines 153-164: deduplicate, then sort
GenerateData ==
    /\ pc = "generate"
    /\ unique_games' = SortGames(Dedup(read_games))
    /\ pc' = "generated"
    /\ UNCHANGED <<scrapeVars, extractVars, primetimeVars, spreadVars, mergeVars>>
    /\ UNCHANGED read_games

NextGenerate == GenerateData

SpecGenerate == InitGenerate /\ [][NextGenerate]_vars

----------------------------------------------------------------------------
(* Properties of the deduplication *)

SameKey(g1, g2) ==
    g1.s = g2.s /\ g1.dt = g2.dt /\ g1.h = g2.h /\ g1.a = g2.a

\* the first game of the input with the key of g
FirstWithKey(g) ==
    read_games[CHOOSE i \in 1..Len(read_games) :
                  /\ SameKey(read_games[i], g)
                  /\ \A j \in 1..(i - 1) : ~SameKey(read_games[j], g)]

\* the dates of the games, in calendar order
Earlier(d1, d2) ==
    d1 = <<"1", "9", "6", "6", "-", "0", "9", "-", "1", "1">>
    /\ d2 = <<"1", "9", "6", "6", "-", "1", "0", "-", "0", "2">>

\* C10: after the dedup step no two records share (season, date, homeTeam,
\* awayTeam); for each key the record kept is the first one in input order,
\* with its values; every key of the input is in the output; and the output
\* is ordered by (season, date).
C10_Deduplicated ==
    pc = "generated" =>
      /\ \A i, j \in 1..Len(unique_games) :
           i # j => ~SameKey(unique_games[i], unique_games[j])
      /\ \A i \in 1..Len(unique_games) :
           /\ \E j \in 1..Len(read_games) : SameKey(read_games[j], unique_games[i])
           /\ unique_games[i] = FirstWithKey(unique_games[i])
      /\ \A j \in 1..Len(read_games) :
           \E i \in 1..Len(unique_games) : SameKey(unique_games[i], read_games[j])
      /\ \A i, j \in 1..Len(unique_games) :
           i < j =>
             \/ unique_games[i].s < unique_games[j].s
             \/ /\ unique_games[i].s = unique_games[j].s
                /\ ~Earlier(unique_games[j].dt, unique_games[i].dt)

\* three games read, the later season first, the third a duplicate of the
\* first with another score: two are kept, in season order, the first with
\* its own score
C10_Witness ==
    /\ pc = "generated"
    /\ Len(read_games) = 3
    /\ SameKey(read_games[1], read_games[3])
    /\ read_games[1].hs = 24
    /\ read_games[3].hs = 17
    /\ read_games[1].s > read_games[2].s
    /\ Len(unique_games) = 2
    /\ unique_games[2] = read_games[1]
    /\ unique_games[1] = read_games[2]

----------------------------------------------------------------------------
(* Properties of fetch_page and of main's loop *)

Is429(resp) == resp.kind = "completed" /\ resp.status_code = "429"
IsOk(resp) ==
    resp.kind = "completed" /\ resp.status_code = "200"
    /\ resp.html.kind = "document"

\* fetch_page has returned to scrape_season
Returned == pc = "parse"

\* C1: three consecutive 429 responses for one URL produce waits of exactly
\* 15 s, 30 s and 45 s, in that order (15 s times the 1-based attempt
\* number); then the call returns None and no fourth attempt is made.
C1_RateLimitBackoff ==
    /\ (\A i \in 1..Len(tries) : Is429(tries[i])) =>
         waits = [i \in 1..Len(tries) |-> Seconds(15 * i)]
    /\ (Len(tries) >= 3 /\ \A i \in 1..3 : Is429(tries[i])) =>
         /\ Len(tries) = 3
         /\ waits = <<Seconds(15), Seconds(30), Seconds(45)>>
         /\ Returned
         /\ html = NoneHtml

C1_Witness ==
    /\ Returned
    /\ Len(tries) = 3
    /\ \A i \in 1..3 : Is429(tries[i])
    /\ waits = <<150, 300, 450>>

\* C2: one fetch_page call makes at least 1 and at most MAX_RETRIES
\* attempts; it returns the body at the first attempt that yields status
\* 200 with a non-empty body and makes no attempt after it; without such an
\* attempt it makes all MAX_RETRIES attempts and returns None; the attempt
\* number starts again at 1 in every call.
C2_AttemptBounds ==
    /\ Len(tries) <= MAX_RETRIES
    /\ Returned => Len(tries) >= 1
    /\ \A i \in 1..Len(tries) :
         IsOk(tries[i]) =>
            /\ i = Len(tries)
            /\ Returned
            /\ html = tries[i].html
    /\ (Returned /\ ~IsOk(tries[Len(tries)])) =>
            /\ Len(tries) = MAX_RETRIES
            /\ html = NoneHtml
    /\ pc = "fetch" => /\ attempt = Len(tries)
                       /\ Len(tries) < MAX_RETRIES

\* the second season's call returns a body at its second attempt
C2_Witness ==
    /\ Returned
    /\ year = DEFAULT_START_YEAR + 1
    /\ Len(tries) = 2
    /\ ~IsOk(tries[1])
    /\ IsOk(tries[2])
    /\ html = tries[2].html

SeasonGames(y) == {i \in 1..Len(all_games) : all_games[i].Season = y}
FailedEntries(y) == {i \in 1..Len(failed_seasons) : failed_seasons[i] = y}

\* scrape_season(y) and main's bookkeeping for it are over
Finished(y) == y < year \/ (y = year /\ pc \in {"delay", "summary", "done"})

\* the page fetch_page returned gives no games: the fetch failed, or the
\* page has no table, no table body or no rows
NoGamesPage ==
    \/ html.kind # "document"
    \/ ~html.has_table
    \/ ~html.has_tbody
    \/ html.rows = <<>>

C3_State ==
    \* the seasons are taken in ascending order, each once
    /\ visited = [i \in 1..Len(visited) |-> DEFAULT_START_YEAR + i - 1]
    /\ Len(visited) = (year - DEFAULT_START_YEAR) + (IF pc = "call" THEN 0 ELSE 1)
    /\ year <= end_year
    /\ pc \in {"summary", "done"} => year = end_year
    \* a finished season is failed or contributes, never both, never neither;
    \* the others have contributed nothing yet
    /\ \A y \in DEFAULT_START_YEAR..end_year :
         IF Finished(y)
         THEN /\ Cardinality(FailedEntries(y)) <= 1
              /\ (FailedEntries(y) # {}) # (SeasonGames(y) # {})
         ELSE FailedEntries(y) = {} /\ SeasonGames(y) = {}

C3_Step ==
    \* a season without games is recorded as failed, adds no record, and
    \* main goes on to the delay before the next season
    /\ (Returned /\ NoGamesPage) =>
         /\ failed_seasons' = Append(failed_seasons, year)
         /\ all_games' = all_games
         /\ pc' = IF year < end_year THEN "delay" ELSE "summary"
    \* the next season begins only from the delay after a finished one
    /\ year' # year => (pc = "delay" /\ year' = year + 1 /\ pc' = "call")

\* C3: a season whose fetch exhausts its retries, or whose page has no table
\* or no rows, is appended to the failed-season list, contributes no
\* records, and the run proceeds to the next season; every season of the
\* range is processed exactly once, in ascending order, one finished before
\* the next begins, and ends up either contributing records or in the
\* failed list, never both and never neither.
C3_FailedSeasons == [] C3_State /\ [][C3_Step]_vars

\* the first season failed, the run went on, and the second contributed
C3_Witness ==
    /\ pc = "done"
    /\ failed_seasons = <<DEFAULT_START_YEAR>>
    /\ SeasonGames(DEFAULT_START_YEAR + 1) # {}
    /\ visited = <<DEFAULT_START_YEAR, DEFAULT_START_YEAR + 1>>

\* the sleeps of main so far: one of 3.5 s after each season before the
\* current one, in order
C11_State ==
    /\ delays = [i \in 1..Len(delays) |->
                   [after |-> DEFAULT_START_YEAR + i - 1, slept |-> 35]]
    /\ Len(delays) = year - DEFAULT_START_YEAR
    /\ \A i \in 1..Len(delays) : delays[i].after < end_year
    /\ pc \in {"summary", "done"} =>
         Len(delays) = end_year - DEFAULT_START_YEAR

C11_Step ==
    \* main sleeps only from the delay after a finished season, once
    /\ delays' # delays =>
         /\ pc = "delay" /\ pc' = "call"
         /\ delays' = Append(delays, [after |-> year, slept |-> 35])
         /\ year' = year + 1
    \* a finished season, failed or not, is followed by the delay unless it
    \* is the last
    /\ Returned => pc' = IF year < end_year THEN "delay" ELSE "summary"
    /\ pc = "delay" => delays' # delays
    \* between the attempts of one season there is never the 3.5 s delay:
    \* an attempt that sleeps sleeps the 429 backoff or 5 s
    /\ pc = "fetch" =>
         /\ delays' = delays
         /\ waits' # waits =>
              /\ Len(waits') = Len(waits) + 1
              /\ waits'[Len(waits')] =
                    IF Is429(tries'[Len(tries')])
                    THEN Seconds(15 * (attempt + 1))
                    ELSE Seconds(5)
              /\ waits'[Len(waits')] # 35

\* C11: in a run over seasons start..end the fixed 3.5 s delay occurs
\* exactly once after each season other than the last, whether that season
\* succeeded or failed, never after the final season, and never between the
\* retries of one season, which sleep only the 429 backoff or the fixed 5 s.
C11_InterSeasonDelay == [] C11_State /\ [][C11_Step]_vars

\* the first season contributed after a retry, the second failed, and main
\* slept once, after the first
C11_Witness ==
    /\ pc = "done"
    /\ end_year = DEFAULT_START_YEAR + 1
    /\ SeasonGames(DEFAULT_START_YEAR) # {}
    /\ failed_seasons = <<DEFAULT_START_YEAR + 1>>
    /\ delays = <<[after |-> DEFAULT_START_YEAR, slept |-> 35]>>

\* a record's natural key
NaturalKey(g) == <<g.Season, g.Date, g.HomeTeam, g.AwayTeam>>

\* C14: after a scrape run, no two records written to the store share the
\* same (season, date, homeTeam, awayTeam).
C14_NaturalKeyUnique ==
    (pc = "done" /\ workbook # NotWritten) =>
        \A i, j \in 1..Len(workbook) :
            i # j => NaturalKey(workbook[i]) # NaturalKey(workbook[j])

\* C15: every record the extraction of a row emits has a home team
\* different from its away team.
C15_HomeNotAway ==
    pc = "extracted" =>
        \A i \in 1..Len(row_games) :
            row_games[i].HomeTeam # row_games[i].AwayTeam

====
